---- MODULE Spec2Model ----
\* A model of deeptrio/pileup_image.py: the allele-combination enumerator, the
\* per-sample pileup assembler (reservoir sampling, sorting, padding), the trio
\* stacker, the alt-aligned combiner and create_pileup_images.
EXTENDS Integers, Sequences, FiniteSets, TLC

VARIABLES
  options,    \* self._options: the PileupImageOptions record, fixed at construction
  readers,    \* self._ref_reader, self._sam_reader, self._sam_reader_parent1/2
  call,       \* the operation invoked last, with its arguments
  result,     \* what that operation returned or raised
  np_random   \* state of the process-wide generator np.random

vars == <<options, readers, call, result, np_random>>

\* ---------------------------------------------------------------- bounds

\* Longest read stream handed to one sample.
MaxReads == 3

\* Configured random seeds range over 0..MaxSeed.
MaxSeed == 2

\* Number of states of the modelled pseudo-random generator.
RngModulus == 8

\* ------------------------------------------------------- Python values

\* An optional value: None, or a value that is present.
None == <<>>

Some(x) == <<x>>

IsNone(o) == Len(o) = 0

Get(o) == o[1]

\* [x] * n
Replicate(x, n) == [i \in 1..n |-> x]

\* ------------------------------------------------ np.random.RandomState

\* A generator is its state; seeding fixes the state.
RandomState(seed) == seed % RngModulus

\* The state after one draw.
RngNext(g) == (5 * g + 3) % RngModulus

\* random.randint(low, high): an integer in [low, high); the draw is a
\* function of the generator's state.
randint(g, low, high) == low + (RngNext(g) % (high - low))

\* utils.reservoir_sample(iterable, k, random): the first k items fill the
\* sample; item number i (0-based) after that replaces slot j, drawn from
\* [0, i], when j < k.
RECURSIVE reservoir_loop(_, _, _, _, _)
reservoir_loop(items, k, n, sample, g) ==
  IF n > Len(items) THEN sample
  ELSE IF Len(sample) < k
       THEN reservoir_loop(items, k, n + 1, Append(sample, items[n]), g)
       ELSE LET j == randint(g, 0, n)
            IN reservoir_loop(items, k, n + 1,
                              IF j < k THEN [sample EXCEPT ![j + 1] = items[n]]
                                       ELSE sample,
                              RngNext(g))

reservoir_sample(iterable, k, random) == reservoir_loop(iterable, k, 1, <<>>, random)

\* ------------------------------------------------------------ the encoder

\* self._encoder.encode_reference(refbases): one opaque reference row.
encode_reference(refbases) == <<"ref", refbases>>

\* self._encoder.encode_read(...): the read's row, or None when the read is
\* not representable in this image.
encode_read(read) ==
  IF read.representable THEN Some(<<"read", read.name>>) ELSE None

\* self._empty_image_row(): an all-zero row.
empty_image_row == <<"empty">>

\* ------------------------------------------------- SampleType, sequencing

CHILD == "CHILD"

PARENT == "PARENT"

SampleType == {CHILD, PARENT}

TRIO == "TRIO"

\* ------------------------------------------ build_pileup_for_one_sample

\* hap_idx of a read: 0, or the integer HP tag when sort_by_haplotypes is on.
hap_idx(opts, read) ==
  IF opts.sort_by_haplotypes /\ Len(read.HP) > 0 THEN read.HP[1] ELSE 0

\* The row generator with the None test left out: every read yields a row.
RECURSIVE row_generator_keeps_null(_, _)
row_generator_keeps_null(opts, reads) ==
  IF Len(reads) = 0 THEN <<>>
  ELSE << <<hap_idx(opts, Head(reads)), Head(reads).position,
            <<"read", Head(reads).name>>>> >>
       \o row_generator_keeps_null(opts, Tail(reads))

\* _row_generator(): (hap_idx, position, row) for each read, in stream order,
\* that the encoder can represent.
RECURSIVE row_generator(_, _)
row_generator(opts, reads) ==
  IF Len(reads) = 0 THEN <<>>
  ELSE LET read == Head(reads)
           read_row == encode_read(read)
       IN (IF ~IsNone(read_row)
           THEN << <<hap_idx(opts, read), read.position, Get(read_row)>> >>
           ELSE <<>>)
          \o row_generator(opts, Tail(reads))

\* key=lambda x: (x[0], x[1]), compared as Python compares tuples.
KeyLeq(a, b) == a[1] < b[1] \/ (a[1] = b[1] /\ a[2] <= b[2])

\* sorted(..., key=...): Python's sort is stable, so an item goes after every
\* earlier item whose key is not greater.
RECURSIVE sorted_by_key(_)
sorted_by_key(s) ==
  IF Len(s) = 0 THEN <<>>
  ELSE LET front == sorted_by_key(SubSeq(s, 1, Len(s) - 1))
           x == s[Len(s)]
           n == Cardinality({i \in 1..Len(front) : KeyLeq(front[i], x)})
       IN SubSeq(front, 1, n) \o <<x>> \o SubSeq(front, n + 1, Len(front))

\* A generator shared by every invocation: the process-wide one.
random_shared(opts) == np_random

\* random_for_image = np.random.RandomState(self._options.random_seed)
random_for_image(opts) == RandomState(opts.random_seed)

\* max_reads_one_sample
max_reads_one_sample(opts, sample_type) ==
  IF opts.sequencing_type = TRIO
  THEN IF sample_type = CHILD THEN opts.height_child - opts.reference_band_height
       ELSE IF sample_type = PARENT
            THEN opts.height_parent - opts.reference_band_height
            ELSE opts.height - opts.reference_band_height
  ELSE opts.height - opts.reference_band_height

\* The target height taken from the single-sample height for every role.
height_any_role(opts, sample_type) == opts.height

\* height_one_sample
height_one_sample(opts, sample_type) ==
  IF opts.sequencing_type = TRIO
  THEN IF sample_type = CHILD THEN opts.height_child
       ELSE IF sample_type = PARENT THEN opts.height_parent
            ELSE opts.height
  ELSE opts.height

\* The reservoir's content used as it is, without sorting.
sampled_rows_unsorted(opts, reads, sample_type) ==
  reservoir_sample(row_generator(opts, reads),
                   max_reads_one_sample(opts, sample_type),
                   random_for_image(opts))

\* sample = sorted(utils.reservoir_sample(_row_generator(), ...), key=...)
sampled_rows(opts, reads, sample_type) ==
  sorted_by_key(reservoir_sample(row_generator(opts, reads),
                                 max_reads_one_sample(opts, sample_type),
                                 random_for_image(opts)))

\* The block with its filler rows put between the reference band and the
\* read rows.
padding_before_reads(opts, refbases, reads, sample_type) ==
  IF IsNone(reads) THEN <<>>
  ELSE LET sample == sampled_rows(opts, Get(reads), sample_type)
           band == Replicate(encode_reference(refbases), opts.reference_band_height)
           n_missing_rows == height_one_sample(opts, sample_type)
                               - opts.reference_band_height - Len(sample)
       IN band
          \o (IF n_missing_rows > 0 THEN Replicate(empty_image_row, n_missing_rows)
              ELSE <<>>)
          \o [i \in 1..Len(sample) |-> sample[i][3]]

\* build_pileup_for_one_sample(reads, sample_type): the rows of one sample's
\* block; reads is None or Some(stream).
build_pileup_for_one_sample(opts, refbases, reads, sample_type) ==
  IF IsNone(reads) THEN <<>>
  ELSE LET sample == sampled_rows(opts, Get(reads), sample_type)
           rows == Replicate(encode_reference(refbases), opts.reference_band_height)
                   \o [i \in 1..Len(sample) |-> sample[i][3]]
           n_missing_rows == height_one_sample(opts, sample_type) - Len(rows)
       IN IF n_missing_rows > 0
          THEN rows \o Replicate(empty_image_row, n_missing_rows)
          ELSE rows

\* ------------------------------------------------------------- the inputs

\* The options every configuration below starts from.
BaseOptions ==
  [width |-> 3, height |-> 3, height_child |-> 4, height_parent |-> 2,
   reference_band_height |-> 1, num_channels |-> 6,
   multi_allelic_mode |-> "ADD_HET_ALT_IMAGES", sequencing_type |-> TRIO,
   alt_aligned_pileup |-> "", read_overlap_buffer_bp |-> 1,
   random_seed |-> 0, sort_by_haplotypes |-> FALSE]

SequencingTypes == {TRIO, "UNSPECIFIED_SEQ_TYPE"}

Seeds == 0..MaxSeed

\* Reads differ in alignment position, HP tag (absent or 1) and in whether the
\* encoder can represent them.
ReadKinds ==
  {[position |-> p, HP |-> h, representable |-> TRUE] : p \in {1, 2}, h \in {<<>>, <<1>>}}
  \cup {[position |-> 1, HP |-> <<>>, representable |-> FALSE]}

\* A read stream: read number i of the stream is named i.
ReadStreams ==
  UNION {{[i \in 1..n |-> [name |-> i, position |-> f[i].position, HP |-> f[i].HP,
                           representable |-> f[i].representable]] :
          f \in [1..n -> ReadKinds]} : n \in 0..MaxReads}

\* The reference window of the sample-level calls.
WindowACG == <<"A", "C", "G">>

\* A read as the read sources hold it: representable, without HP tag.
Read(name, position) ==
  [name |-> name, position |-> position, HP |-> <<>>, representable |-> TRUE]

\* The reads of the child, of parent 1 and of parent 2, told apart by name.
ChildReads == <<Read(21, 2), Read(22, 1)>>

Parent1Reads == <<Read(11, 1)>>

Parent2Reads == <<Read(31, 1), Read(32, 2), Read(33, 1)>>

\* The contig of the reference source; position p (0-based) holds Contig[p + 1].
Contig == <<"A", "C", "G", "T">>

\* A creator constructed with read sources for the child and both parents.
DefaultReaders ==
  [ref_reader |-> Contig, sam_reader |-> ChildReads,
   sam_reader_parent1 |-> Some(Parent1Reads), sam_reader_parent2 |-> Some(Parent2Reads)]

\* ------------------------------------- specification: one sample's block

\* A behaviour is one creator, the arguments of one call, and the call.

\* Configurations whose row budget is non-negative for every role.
SampleOptions ==
  {[BaseOptions EXCEPT !.sequencing_type = s, !.reference_band_height = b,
                       !.random_seed = r, !.sort_by_haplotypes = h] :
     s \in SequencingTypes, b \in {1, 2}, r \in Seeds, h \in BOOLEAN}

\* The arguments of one invocation of build_pileup_for_one_sample.
SampleCalls ==
  {[op |-> "build_pileup_for_one_sample", reads |-> reads, sample_type |-> sample_type] :
     reads \in {None} \cup {Some(s) : s \in ReadStreams}, sample_type \in SampleType}

InitSample ==
  /\ options \in SampleOptions
  /\ readers = DefaultReaders
  /\ call \in SampleCalls
  /\ result = [kind |-> "none"]
  /\ np_random = 0

\* build_pileup_for_one_sample runs on the arguments of the call.
CallBuildPileupForOneSample ==
  /\ call.op = "build_pileup_for_one_sample"
  /\ result' = [kind |-> "rows",
                rows |-> build_pileup_for_one_sample(options, WindowACG, call.reads,
                                                     call.sample_type)]
  /\ UNCHANGED <<options, readers, call, np_random>>

NextSample == CallBuildPileupForOneSample

SpecSample == InitSample /\ [][NextSample]_vars

\* ------------------------- specification: the generator of an invocation

SeedOptions ==
  {[BaseOptions EXCEPT !.sequencing_type = s, !.random_seed = r] :
     s \in SequencingTypes, r \in Seeds}

InitSeed ==
  /\ options \in SeedOptions
  /\ readers = DefaultReaders
  /\ call \in SampleCalls
  /\ result = [kind |-> "none"]
  /\ np_random = 0

\* Any other code of the process draws from the process-wide generator.
DrawFromGlobal ==
  /\ np_random' = RngNext(np_random)
  /\ UNCHANGED <<options, readers, call, result>>

NextSeed == CallBuildPileupForOneSample \/ DrawFromGlobal

SpecSeed == InitSeed /\ [][NextSeed]_vars

\* ------------------------------------------------ claims on one sample

\* The last call assembled a sample from a read stream that was supplied.
SampleAssembled ==
  /\ call.op = "build_pileup_for_one_sample"
  /\ result.kind = "rows"
  /\ ~IsNone(call.reads)

\* The configured height for the role of the last call.
RoleHeight ==
  IF options.sequencing_type = TRIO
  THEN IF call.sample_type = CHILD THEN options.height_child
       ELSE options.height_parent
  ELSE options.height

RoleCapacity == RoleHeight - options.reference_band_height

\* The names of the stream's reads the encoder can represent.
Representable == {i \in 1..Len(Get(call.reads)) : Get(call.reads)[i].representable}

\* The positions of the returned block that hold read rows.
ReadRowsAt == {i \in 1..Len(result.rows) : result.rows[i][1] = "read"}

\* C1: a block assembled from a supplied read stream has exactly the height
\* configured for its role, however many representable reads the stream has.
C1_BlockHeight == SampleAssembled => Len(result.rows) = RoleHeight

\* C1 witness: a trio parent block built from more representable reads than fit.
C1_Witness ==
  /\ SampleAssembled
  /\ options.sequencing_type = TRIO
  /\ call.sample_type = PARENT
  /\ Cardinality(Representable) > RoleCapacity
  /\ Len(result.rows) = options.height_parent

\* C4: the block holds min(m, k) read rows for m representable reads and
\* capacity k: all of them when m <= k; each is the row of a representable
\* read of the stream, none appears twice, and no row of a null-encoded read
\* appears.
C4_Reservoir ==
  SampleAssembled =>
    /\ Cardinality(ReadRowsAt) =
         (IF Cardinality(Representable) <= RoleCapacity
          THEN Cardinality(Representable) ELSE RoleCapacity)
    /\ \A i \in ReadRowsAt : result.rows[i][2] \in Representable
    /\ \A i, j \in ReadRowsAt : i # j => result.rows[i] # result.rows[j]
    /\ Cardinality(Representable) <= RoleCapacity =>
         \A n \in Representable : \E i \in ReadRowsAt : result.rows[i][2] = n

\* C4 witness: more representable reads than capacity, with a null-encoded
\* read in the stream, and exactly capacity read rows kept.
C4_Witness ==
  /\ SampleAssembled
  /\ RoleCapacity >= 1
  /\ Cardinality(Representable) > RoleCapacity
  /\ Cardinality(Representable) < Len(Get(call.reads))
  /\ Cardinality(ReadRowsAt) = RoleCapacity

\* The (haplotype index, alignment position) of the stream's read named n.
ReadKey(n) ==
  LET read == Get(call.reads)[n]
  IN <<IF options.sort_by_haplotypes /\ Len(read.HP) > 0 THEN read.HP[1] ELSE 0,
       read.position>>

\* The key of the read behind row i of the block.
RowKey(i) == ReadKey(result.rows[i][2])

KeyLess(a, b) == a[1] < b[1] \/ (a[1] = b[1] /\ a[2] < b[2])

RowsAscending ==
  \A i, j \in ReadRowsAt : i < j => ~KeyLess(RowKey(j), RowKey(i))

TiesInStreamOrder ==
  \A i, j \in ReadRowsAt :
    (i < j /\ RowKey(i) = RowKey(j)) => result.rows[i][2] < result.rows[j][2]

\* C6 as stated: rows ascend by (haplotype index, position) and rows sharing
\* both keep their stream order, also when the stream exceeds the capacity.
C6_StableAlways == SampleAssembled => (RowsAscending /\ TiesInStreamOrder)

\* C6 amended: rows ascend by (haplotype index, position); rows sharing both
\* keep their stream order when the stream has no more representable reads
\* than the capacity.
C6_StableWithinCapacity ==
  SampleAssembled =>
    /\ RowsAscending
    /\ Cardinality(Representable) <= RoleCapacity => TiesInStreamOrder

\* C6 witness: a stream within capacity, out of key order, with a tie.
C6_Witness ==
  /\ SampleAssembled
  /\ Cardinality(Representable) <= RoleCapacity
  /\ \E i, j \in ReadRowsAt : i < j /\ RowKey(i) = RowKey(j)
  /\ \E a, b \in Representable : a < b /\ KeyLess(ReadKey(b), ReadKey(a))

\* C5: an invocation's block is a function of the seed and the read stream:
\* repeating the call gives the same block whatever was drawn from the
\* process-wide generator in between, and an invocation leaves that generator
\* as it found it.
C5_OwnGenerator ==
  [][/\ (result.kind = "rows" /\ result'.kind = "rows") => result' = result
     /\ result' # result => np_random' = np_random]_vars

\* C5 witness: a block that needed draws (more representable reads than
\* capacity), built in a process whose global generator has been used.
C5_Witness ==
  /\ SampleAssembled
  /\ np_random # 0
  /\ RoleCapacity >= 1
  /\ Cardinality(Representable) > RoleCapacity

\* ------------------------------------------------ _alt_allele_combinations

\* Most alternate alleles of a variant.
MaxAlts == 3

\* The allele strings, in the order Python's string comparison gives them.
AlleleOrder == <<"A", "AC", "C", "G", "T">>

Alleles == {AlleleOrder[i] : i \in 1..Len(AlleleOrder)}

Rank(a) == CHOOSE i \in 1..Len(AlleleOrder) : AlleleOrder[i] = a

\* sorted(list(S)) for a set of allele strings.
RECURSIVE sorted_alleles(_)
sorted_alleles(S) ==
  IF S = {} THEN <<>>
  ELSE LET least == CHOOSE a \in S : \A b \in S : Rank(a) <= Rank(b)
       IN <<least>> \o sorted_alleles(S \ {least})

\* itertools.combinations(s, 2): the pairs (s[i], s[j]), i < j, in
\* lexicographic order of (i, j).
RECURSIVE combinations_from(_, _, _)
combinations_from(s, i, j) ==
  IF i >= Len(s) THEN <<>>
  ELSE IF j > Len(s) THEN combinations_from(s, i + 1, i + 2)
       ELSE << <<s[i], s[j]>> >> \o combinations_from(s, i, j + 1)

combinations2(s) == combinations_from(s, 1, 2)

\* A raised exception, and a returned value.
Raise(error) == [ok |-> FALSE, error |-> error]

Return(value) == [ok |-> TRUE, value |-> value]

\* The pairs taken among the alternates alone, the reference left out.
combinations_of_alts(ref, alts) == combinations2(alts)

\* itertools.combinations([ref] + alts, 2)
combinations_with_ref(ref, alts) == combinations2(<<ref>> \o alts)

\* _alt_allele_combinations(variant), consumed to its end: the list of the
\* yielded allele lists, or the error raised.
alt_allele_combinations(opts, variant) ==
  LET ref == variant.reference_bases
      alts == variant.alternate_bases
  IN IF opts.multi_allelic_mode = "UNSPECIFIED"
     THEN Raise("ValueError: multi_allelic_mode cannot be UNSPECIFIED")
     ELSE IF opts.multi_allelic_mode = "NO_HET_ALT_IMAGES"
          THEN Return([i \in 1..Len(alts) |-> sorted_alleles({alts[i]})])
          ELSE LET pairs == combinations_with_ref(ref, alts)
               IN Return([i \in 1..Len(pairs) |->
                            sorted_alleles({pairs[i][1], pairs[i][2]} \ {ref})])

\* ------------------------------------- specification: the enumerator

\* The alternates of a variant: distinct alleles, none the reference.
AlternateLists(ref) ==
  UNION {{f \in [1..n -> Alleles \ {ref}] : \A i, j \in 1..n : i # j => f[i] # f[j]} :
         n \in 0..MaxAlts}

Variants ==
  UNION {{[start |-> 1, reference_bases |-> ref, alternate_bases |-> alts] :
          alts \in AlternateLists(ref)} : ref \in Alleles}

MultiAllelicModes == {"UNSPECIFIED", "NO_HET_ALT_IMAGES", "ADD_HET_ALT_IMAGES"}

InitAlts ==
  /\ options \in {[BaseOptions EXCEPT !.multi_allelic_mode = m] : m \in MultiAllelicModes}
  /\ readers = DefaultReaders
  /\ call \in {[op |-> "_alt_allele_combinations", variant |-> v] : v \in Variants}
  /\ result = [kind |-> "none"]
  /\ np_random = 0

CallAltAlleleCombinations ==
  /\ call.op = "_alt_allele_combinations"
  /\ result' = [kind |-> "combinations",
                combinations |-> alt_allele_combinations(options, call.variant)]
  /\ UNCHANGED <<options, readers, call, np_random>>

NextAlts == CallAltAlleleCombinations

SpecAlts == InitAlts /\ [][NextAlts]_vars

\* ------------------------------------------------ claim on the enumerator

\* The enumerator ran in the pairs-covering-het-alt mode.
HetAltEnumerated ==
  /\ call.op = "_alt_allele_combinations"
  /\ result.kind = "combinations"
  /\ options.multi_allelic_mode = "ADD_HET_ALT_IMAGES"

NumAlts == Len(call.variant.alternate_bases)

AltSet == {call.variant.alternate_bases[i] : i \in 1..NumAlts}

AsSet(list) == {list[i] : i \in 1..Len(list)}

\* C3: in ADD_HET_ALT_IMAGES mode N alternates give N(N+1)/2 lists, each
\* non-empty and strictly ascending; every alternate is yielded once as a
\* singleton and every unordered pair of distinct alternates once as a pair,
\* and nothing else is yielded.
C3_HetAltCombinations ==
  HetAltEnumerated =>
    /\ result.combinations.ok
    /\ LET yielded == result.combinations.value
       IN /\ 2 * Len(yielded) = NumAlts * (NumAlts + 1)
          /\ \A k \in 1..Len(yielded) :
               /\ Len(yielded[k]) \in {1, 2}
               /\ AsSet(yielded[k]) \subseteq AltSet
               /\ Len(yielded[k]) = 2 => Rank(yielded[k][1]) < Rank(yielded[k][2])
          /\ \A a \in AltSet :
               Cardinality({k \in 1..Len(yielded) : yielded[k] = <<a>>}) = 1
          /\ \A a, b \in AltSet :
               a # b =>
                 Cardinality({k \in 1..Len(yielded) : AsSet(yielded[k]) = {a, b}}) = 1

\* C3 witness: reference 'A' with alternates ['C', 'G'] yields ['C'], ['G'],
\* ['C', 'G'].
C3_Witness ==
  /\ HetAltEnumerated
  /\ call.variant.reference_bases = "A"
  /\ call.variant.alternate_bases = <<"C", "G">>
  /\ result.combinations = Return(<< <<"C">>, <<"G">>, <<"C", "G">> >>)

\* ------------------------------------------ _represent_alt_aligned_pileups

\* A 3D array is its shape (rows, width, channels) and, for each row, the
\* content of that row in each channel.

\* image[:, :, c]: one channel of an image, a 2D array.
channel_slice(image, c) ==
  [shape |-> <<image.shape[1], image.shape[2]>>,
   data |-> [i \in 1..image.shape[1] |-> image.data[i][c + 1]]]

\* np.stack(channels, axis=2) of 2D arrays of one shape.
stack_axis2(channels, h, w) ==
  [shape |-> <<h, w, Len(channels)>>,
   data |-> [i \in 1..h |-> [k \in 1..Len(channels) |-> channels[k].data[i]]]]

\* np.concatenate([a, b, c], axis=0) of images of one width and channel count.
concatenate_axis0(a, b, c) ==
  [shape |-> <<a.shape[1] + b.shape[1] + c.shape[1], a.shape[2], a.shape[3]>>,
   data |-> a.data \o b.data \o c.data]

\* The alternate images taken as given, a single one not duplicated.
keep_single_alt(alt_images) == alt_images

\* if len(alt_images) == 1: alt_images = alt_images + alt_images
duplicate_single_alt(alt_images) ==
  IF Len(alt_images) = 1 THEN alt_images \o alt_images ELSE alt_images

\* The reference channels followed by channel c of both alternates, stacked;
\* indexing a channel the alternate does not have raises IndexError.
append_alt_channel(ref_image, alts, c) ==
  IF c >= alts[1].shape[3] \/ c >= alts[2].shape[3]
  THEN Raise("IndexError: index out of bounds for axis 2")
  ELSE Return(stack_axis2([k \in 1..ref_image.shape[3] |-> channel_slice(ref_image, k - 1)]
                          \o <<channel_slice(alts[1], c), channel_slice(alts[2], c)>>,
                          ref_image.shape[1], ref_image.shape[2]))

\* _represent_alt_aligned_pileups(representation, ref_image, alt_images)
represent_alt_aligned_pileups(representation, ref_image, alt_images) ==
  LET alts == duplicate_single_alt(alt_images)
  IN IF Len(alts) # 2
     THEN Raise("ValueError: alt_images must contain exactly one or two arrays.")
     ELSE IF ~(ref_image.shape = alts[1].shape /\ alts[1].shape = alts[2].shape)
     THEN Raise("ValueError: Pileup images must be the same shape to be combined.")
     ELSE IF representation = "rows"
     THEN Return(concatenate_axis0(ref_image, alts[1], alts[2]))
     ELSE IF representation = "base_channels"
     THEN append_alt_channel(ref_image, alts, 0)
     ELSE IF representation = "diff_channels"
     THEN append_alt_channel(ref_image, alts, 5)
     ELSE Raise("ValueError: alt_aligned_pileups received invalid value")

\* ------------------------------------- specification: the combiner

\* Most rows of an image handed to the combiner.
MaxImageRows == 2

\* Channel counts below, at and above the six channels of a pileup image.
ChannelCounts == {1, 5, 6, 7}

ImageShapes == {<<h, 3, c>> : h \in 1..MaxImageRows, c \in ChannelCounts}

\* An image of a given shape whose content is recognisable by its tag.
TestImage(tag, shape) ==
  [shape |-> shape,
   data |-> [i \in 1..shape[1] |-> [k \in 1..shape[3] |-> <<tag, i, k - 1>>]]]

AltImages == {TestImage(tag, shape) : tag \in {"alt1", "alt2"}, shape \in ImageShapes}

\* No, one, two or three alternate images.
AltImageLists ==
  {<<>>} \cup {<<a>> : a \in AltImages} \cup {<<a, b>> : a, b \in AltImages}
  \cup {<<a, a, a>> : a \in AltImages}

Representations == {"rows", "base_channels", "diff_channels", "columns"}

InitCombine ==
  /\ options = BaseOptions
  /\ readers = DefaultReaders
  /\ call \in {[op |-> "_represent_alt_aligned_pileups", representation |-> r,
                ref_image |-> TestImage("ref", shape), alt_images |-> alts] :
               r \in Representations, shape \in ImageShapes, alts \in AltImageLists}
  /\ result = [kind |-> "none"]
  /\ np_random = 0

CallRepresentAltAlignedPileups ==
  /\ call.op = "_represent_alt_aligned_pileups"
  /\ result' = [kind |-> "combined",
                combined |-> represent_alt_aligned_pileups(call.representation,
                                                          call.ref_image, call.alt_images)]
  /\ UNCHANGED <<options, readers, call, np_random>>

NextCombine == CallRepresentAltAlignedPileups

SpecCombine == InitCombine /\ [][NextCombine]_vars

\* ------------------------------------------------ claim on the combiner

\* The combiner ran on a reference image and one or two alternate images, all
\* of one shape.
CombinedSameShape ==
  /\ call.op = "_represent_alt_aligned_pileups"
  /\ result.kind = "combined"
  /\ Len(call.alt_images) \in {1, 2}
  /\ \A k \in 1..Len(call.alt_images) : call.alt_images[k].shape = call.ref_image.shape

RefRows == call.ref_image.shape[1]

RefWidth == call.ref_image.shape[2]

RefChannels == call.ref_image.shape[3]

\* The result is an array of the given shape, its content agreeing with it.
CombinedHasShape(shape) ==
  /\ result.combined.ok
  /\ result.combined.value.shape = shape
  /\ Len(result.combined.value.data) = shape[1]
  /\ \A i \in 1..shape[1] : Len(result.combined.value.data[i]) = shape[3]

\* One alternate image gives what that image given twice gives.
OneAltAsTwo ==
  Len(call.alt_images) = 1 =>
    result.combined = represent_alt_aligned_pileups(call.representation, call.ref_image,
                                                    <<call.alt_images[1], call.alt_images[1]>>)

\* C7 as stated: for every (h, w, c), "rows" gives (3h, w, c) and both channel
\* modes give (h, w, c + 2); one alternate image gives what two copies give.
C7_ShapesForEveryShape ==
  CombinedSameShape =>
    /\ call.representation = "rows" =>
         CombinedHasShape(<<3 * RefRows, RefWidth, RefChannels>>)
    /\ call.representation \in {"base_channels", "diff_channels"} =>
         CombinedHasShape(<<RefRows, RefWidth, RefChannels + 2>>)
    /\ OneAltAsTwo

\* C7 amended: "rows" gives (3h, w, c) for every shape; "base_channels" gives
\* (h, w, c + 2) when c >= 1; "diff_channels" gives (h, w, c + 2) when c >= 6
\* and raises IndexError when c < 6; one alternate image gives what two copies
\* give.
C7_ShapesWithChannels ==
  CombinedSameShape =>
    /\ call.representation = "rows" =>
         CombinedHasShape(<<3 * RefRows, RefWidth, RefChannels>>)
    /\ (call.representation = "base_channels" /\ RefChannels >= 1) =>
         CombinedHasShape(<<RefRows, RefWidth, RefChannels + 2>>)
    /\ (call.representation = "diff_channels" /\ RefChannels >= 6) =>
         CombinedHasShape(<<RefRows, RefWidth, RefChannels + 2>>)
    /\ (call.representation = "diff_channels" /\ RefChannels < 6) =>
         result.combined = Raise("IndexError: index out of bounds for axis 2")
    /\ OneAltAsTwo

\* C7 witness: one alternate image of six channels combined in "diff_channels"
\* mode into an image of eight channels.
C7_Witness ==
  /\ CombinedSameShape
  /\ Len(call.alt_images) = 1
  /\ call.representation = "diff_channels"
  /\ RefChannels = 6
  /\ CombinedHasShape(<<RefRows, RefWidth, 8>>)

\* ------------------------------------------------------------ build_pileup

\* int((width - 1) / 2): true division, then truncation toward zero.
compute_half_width(width) ==
  IF width >= 1 THEN (width - 1) \div 2 ELSE -((1 - width) \div 2)

half_width(opts) == compute_half_width(opts.width)

\* s[0] of an allele string.
FirstChar(allele) == IF allele = "AC" THEN "A" ELSE allele

\* len(s) of an allele string.
AlleleLen(allele) == IF allele = "AC" THEN 2 ELSE 1

Elements(list) == {list[i] : i \in 1..Len(list)}

\* What an operation did: its outcome, and how many times it called the encoder.
Outcome(outcome, encoder_calls) == [outcome |-> outcome, encoder_calls |-> encoder_calls]

\* The errors build_pileup raises for its arguments.
RefbasesLengthError == "ValueError: refbases length differs from width"

EmptyAltAllelesError == "ValueError: alt_alleles cannot be empty"

NotAlternateError == "ValueError: all elements of alt_alleles must be the alternate bases of dv_call.variant"

MiddleBaseError == "ValueError: The middle base of reference sequence in the window doesn't match first character of variant.reference_bases"

\* The anchor base checked whatever custom_ref says.
middle_base_always_checked(custom_ref) == TRUE

\* not custom_ref
middle_base_checked(custom_ref) == ~custom_ref

\* Encoder calls of one sample's block: encode_reference once, encode_read
\* once per read.
encoder_calls_one_sample(reads) == IF IsNone(reads) THEN 0 ELSE 1 + Len(Get(reads))

\* The streams of the blocks stacked with the child first.
trio_order_child_first(reads, reads_parent1, reads_parent2) ==
  << <<reads, CHILD>>, <<reads_parent1, PARENT>>, <<reads_parent2, PARENT>> >>

\* The streams of the blocks a trio image stacks, top to bottom, with their
\* roles: parent 1, child, parent 2.
trio_order(reads, reads_parent1, reads_parent2) ==
  << <<reads_parent1, PARENT>>, <<reads, CHILD>>, <<reads_parent2, PARENT>> >>

\* The streams whose blocks make the image.
sample_order(opts, reads, reads_parent1, reads_parent2) ==
  IF opts.sequencing_type = TRIO
  THEN trio_order(reads, reads_parent1, reads_parent2)
  ELSE << <<reads, CHILD>> >>

\* rows.extend(build_pileup_for_one_sample(...)) for each stream in order.
RECURSIVE extend_rows(_, _, _)
extend_rows(opts, refbases, samples) ==
  IF Len(samples) = 0 THEN <<>>
  ELSE build_pileup_for_one_sample(opts, refbases, samples[1][1], samples[1][2])
       \o extend_rows(opts, refbases, Tail(samples))

RECURSIVE encoder_calls_of(_)
encoder_calls_of(samples) ==
  IF Len(samples) = 0 THEN 0
  ELSE encoder_calls_one_sample(samples[1][1]) + encoder_calls_of(Tail(samples))

\* np.vstack(rows) of rows of shape (1, width, num_channels); no rows is an error.
vstack(opts, rows) ==
  IF Len(rows) = 0 THEN Raise("ValueError: need at least one array to concatenate")
  ELSE Return([shape |-> <<Len(rows), opts.width, opts.num_channels>>,
               data |-> [i \in 1..Len(rows) |->
                           [k \in 1..opts.num_channels |-> <<rows[i], k - 1>>]]])

\* build_pileup(dv_call, refbases, reads, alt_alleles, reads_parent1,
\* reads_parent2, custom_ref)
build_pileup(opts, dv_call, refbases, reads, alt_alleles, reads_parent1, reads_parent2, custom_ref) ==
  IF Len(refbases) # opts.width
  THEN Outcome(Raise(RefbasesLengthError), 0)
  ELSE IF Len(alt_alleles) = 0
  THEN Outcome(Raise(EmptyAltAllelesError), 0)
  ELSE IF \E i \in 1..Len(alt_alleles) :
            alt_alleles[i] \notin Elements(dv_call.variant.alternate_bases)
  THEN Outcome(Raise(NotAlternateError), 0)
  ELSE IF /\ middle_base_checked(custom_ref)
          /\ refbases[half_width(opts) + 1] # FirstChar(dv_call.variant.reference_bases)
  THEN Outcome(Raise(MiddleBaseError), 0)
  ELSE LET samples == sample_order(opts, reads, reads_parent1, reads_parent2)
       IN Outcome(vstack(opts, extend_rows(opts, refbases, samples)),
                  encoder_calls_of(samples))

\* ------------------------------------------------------------ the sources

\* ranges.make_range(reference_name, start, end)
make_range(reference_name, start, end) ==
  [reference_name |-> reference_name, start |-> start, end |-> end]

\* self._ref_reader.is_valid(region): the region lies inside the contig.
is_valid(ref_reader, region) ==
  0 <= region.start /\ region.start <= region.end /\ region.end <= Len(ref_reader)

\* self._ref_reader.query(region): the bases of [start, end).
query_bases(ref_reader, region) ==
  [i \in 1..(region.end - region.start) |-> ref_reader[region.start + i]]

\* sam_reader.query(region): the source's reads that lie in [start, end), in
\* the source's order.
query_reads(sam_reader, region) ==
  LET InRegion(read) == region.start <= read.position /\ read.position < region.end
  IN SelectSeq(sam_reader, InRegion)

\* get_reference_bases(variant): the window's bases, or None.
get_reference_bases(opts, rd, variant) ==
  LET start == variant.start - half_width(opts)
      end == start + opts.width
      region == make_range(variant.reference_name, start, end)
  IN IF is_valid(rd.ref_reader, region) THEN Some(query_bases(rd.ref_reader, region))
     ELSE None

\* get_reads(variant, parent=parent), parent None, Some(1) or Some(2): the
\* source chosen, or None where the creator has none for that parent.
reader_for(rd, parent) ==
  IF IsNone(parent) THEN Some(rd.sam_reader)
  ELSE IF Get(parent) = 1 THEN rd.sam_reader_parent1
       ELSE rd.sam_reader_parent2

get_reads_region(opts, variant) ==
  make_range(variant.reference_name,
             variant.start - opts.read_overlap_buffer_bp,
             variant.end + opts.read_overlap_buffer_bp)

get_reads(opts, rd, variant, parent) ==
  IF ~IsNone(parent) /\ Get(parent) \notin {1, 2}
  THEN Raise("ValueError: parent must be None (for child), 1, or 2")
  ELSE IF IsNone(reader_for(rd, parent))
  THEN Raise("AttributeError: 'NoneType' object has no attribute 'query'")
  ELSE Return(query_reads(Get(reader_for(rd, parent)), get_reads_region(opts, variant)))

\* ---------------------------------------------------- create_pileup_images

\* What create_pileup_images did: its outcome, the read-source queries it
\* made, in order, and how many times it called the encoder.
Created(outcome, queries, encoder_calls) ==
  [outcome |-> outcome, queries |-> queries, encoder_calls |-> encoder_calls]

\* Truth value of an optional dict: None and the empty dict are false.
Truthy(d) == ~IsNone(d) /\ DOMAIN Get(d) # {}

HaplotypeDataError ==
  "ValueError: haplotype_alignments, parent1_hap_alns, parent2_hap_alns, and haplotype_sequences must all be populated"

\* The early exit raising instead of returning None.
no_window_raises == Raise("ValueError: invalid reference interval")

\* return None
no_window_result == Return(None)

\* A local variable: the one value of a singleton set, so that the expression
\* assigned to it is evaluated once.
Assigned(S) == CHOOSE x \in S : TRUE

\* The alt-aligned images of one allele subset, one per allele, built in order
\* with custom_ref=True; a dict without the allele raises KeyError.
RECURSIVE build_alt_images(_, _, _, _, _, _, _)
build_alt_images(opts, dv_call, hap, alt_alleles, i, images, encoder_calls) ==
  IF i > Len(alt_alleles) THEN Outcome(Return(images), encoder_calls)
  ELSE LET alt == alt_alleles[i]
       IN IF \/ alt \notin DOMAIN Get(hap.haplotype_sequences)
             \/ alt \notin DOMAIN Get(hap.haplotype_alignments)
             \/ alt \notin DOMAIN Get(hap.parent1_hap_alns)
             \/ alt \notin DOMAIN Get(hap.parent2_hap_alns)
          THEN Outcome(Raise("KeyError"), encoder_calls)
          ELSE Assigned({
                 IF ~built.outcome.ok
                 THEN Outcome(built.outcome, encoder_calls + built.encoder_calls)
                 ELSE build_alt_images(opts, dv_call, hap, alt_alleles, i + 1,
                                       Append(images, built.outcome.value),
                                       encoder_calls + built.encoder_calls) :
                 built \in {build_pileup(opts, dv_call,
                                         Get(hap.haplotype_sequences)[alt],
                                         Some(Get(hap.haplotype_alignments)[alt]),
                                         alt_alleles,
                                         Some(Get(hap.parent1_hap_alns)[alt]),
                                         Some(Get(hap.parent2_hap_alns)[alt]),
                                         TRUE)}})

\* _pileup_for_pair_of_alts(alt_alleles)
pileup_for_pair_of_alts(opts, dv_call, ref_bases, reads, reads_parent1, reads_parent2, hap, alt_alleles) ==
  Assigned({
    IF ~ref_image.outcome.ok THEN ref_image
    ELSE IF opts.alt_aligned_pileup = "" THEN ref_image
    ELSE IF ~(/\ Truthy(hap.haplotype_alignments) /\ Truthy(hap.haplotype_sequences)
              /\ Truthy(hap.parent1_hap_alns) /\ Truthy(hap.parent2_hap_alns))
    THEN Outcome(Raise(HaplotypeDataError), ref_image.encoder_calls)
    ELSE Assigned({
           LET encoder_calls == ref_image.encoder_calls + alt_images.encoder_calls
           IN IF ~alt_images.outcome.ok THEN Outcome(alt_images.outcome, encoder_calls)
              ELSE Outcome(represent_alt_aligned_pileups(opts.alt_aligned_pileup,
                                                         ref_image.outcome.value,
                                                         alt_images.outcome.value),
                           encoder_calls) :
           alt_images \in {build_alt_images(opts, dv_call, hap, alt_alleles, 1, <<>>, 0)}}) :
    ref_image \in {build_pileup(opts, dv_call, ref_bases, Some(reads), alt_alleles,
                                Some(reads_parent1), Some(reads_parent2), FALSE)}})

\* [(alts, _pileup_for_pair_of_alts(alts)) for alts in combinations]: the
\* pairs in order; the first error ends the call.
RECURSIVE pileups_for_combinations(_, _, _, _, _, _, _, _, _, _)
pileups_for_combinations(opts, dv_call, ref_bases, reads, reads_parent1, reads_parent2, hap, combinations, pairs, encoder_calls) ==
  IF Len(combinations) = 0 THEN Outcome(Return(Some(pairs)), encoder_calls)
  ELSE LET alts == Head(combinations)
       IN Assigned({
            IF ~image.outcome.ok
            THEN Outcome(image.outcome, encoder_calls + image.encoder_calls)
            ELSE pileups_for_combinations(opts, dv_call, ref_bases, reads, reads_parent1,
                                          reads_parent2, hap, Tail(combinations),
                                          Append(pairs, <<alts, image.outcome.value>>),
                                          encoder_calls + image.encoder_calls) :
            image \in {pileup_for_pair_of_alts(opts, dv_call, ref_bases, reads,
                                               reads_parent1, reads_parent2, hap, alts)}})

\* A query of a read source, as the source sees it.
Query(reader, opts, variant) == [reader |-> reader, region |-> get_reads_region(opts, variant)]

\* create_pileup_images(dv_call, haplotype_alignments, haplotype_sequences,
\* parent1_hap_alns, parent2_hap_alns); hap holds the four optional dicts.
create_pileup_images(opts, rd, dv_call, hap) ==
  LET variant == dv_call.variant
      ref_bases == get_reference_bases(opts, rd, variant)
      reads == get_reads(opts, rd, variant, None)
      reads_parent1 == get_reads(opts, rd, variant, Some(1))
      reads_parent2 == get_reads(opts, rd, variant, Some(2))
      child_query == <<Query("sam_reader", opts, variant)>>
      parent1_query == <<Query("sam_reader_parent1", opts, variant)>>
      parent2_query == <<Query("sam_reader_parent2", opts, variant)>>
      combinations == alt_allele_combinations(opts, variant)
  IN IF IsNone(ref_bases) \/ Len(Get(ref_bases)) = 0
     THEN Created(no_window_result, <<>>, 0)
     ELSE IF ~reads.ok THEN Created(reads, <<>>, 0)
     ELSE IF ~reads_parent1.ok THEN Created(reads_parent1, child_query, 0)
     ELSE IF ~reads_parent2.ok
     THEN Created(reads_parent2, child_query \o parent1_query, 0)
     ELSE LET queries == child_query \o parent1_query \o parent2_query
          IN IF ~combinations.ok THEN Created(combinations, queries, 0)
             ELSE Assigned({
                    Created(images.outcome, queries, images.encoder_calls) :
                    images \in {pileups_for_combinations(
                                  opts, dv_call, Get(ref_bases), reads.value,
                                  reads_parent1.value, reads_parent2.value, hap,
                                  combinations.value, <<>>, 0)}})

\* ----------------------------------- specification: the image creator

CreatorOptions ==
  {[BaseOptions EXCEPT !.sequencing_type = s, !.multi_allelic_mode = m,
                       !.alt_aligned_pileup = a] :
     s \in SequencingTypes, m \in MultiAllelicModes, a \in {"", "rows", "diff_channels"}}

\* Creators with read sources for both parents, and with none.
ReaderSets ==
  {DefaultReaders,
   [DefaultReaders EXCEPT !.sam_reader_parent1 = None, !.sam_reader_parent2 = None]}

\* Variants at the contig's left edge (0), inside it (1) and at its right
\* edge (3); the contig holds "C" at position 1.
CreatorVariants ==
  {[reference_name |-> "chr1", start |-> s, end |-> s + AlleleLen(ref),
    reference_bases |-> ref, alternate_bases |-> alts] :
     s \in {0, 1, 3}, ref \in {"C", "A"}, alts \in {<<>>, <<"G">>, <<"T", "G">>}}

\* The window of the haplotype carrying an alternate allele: the allele's base
\* stands where the window of the reference holds the variant's.
HaplotypeWindow(alt) == <<"A", alt, "G">>

\* Optional dicts keyed by allele.
HaplotypeSequences ==
  {None, Some([a \in {} |-> <<>>]),
   Some([a \in {"G", "T"} |-> HaplotypeWindow(a)]),
   Some([a \in {"G"} |-> HaplotypeWindow(a)])}

HaplotypeAlignments ==
  {None, Some([a \in {"G", "T"} |-> ChildReads]), Some([a \in {"T"} |-> ChildReads])}

Parent1Alignments == {None, Some([a \in {"G", "T"} |-> Parent1Reads])}

Parent2Alignments == {Some([a \in {} |-> <<>>]), Some([a \in {"G", "T"} |-> Parent2Reads])}

CreateCalls ==
  {[op |-> "create_pileup_images", dv_call |-> [variant |-> v],
    hap |-> [haplotype_alignments |-> ha, haplotype_sequences |-> hs,
             parent1_hap_alns |-> p1, parent2_hap_alns |-> p2]] :
     v \in CreatorVariants, ha \in HaplotypeAlignments, hs \in HaplotypeSequences,
     p1 \in Parent1Alignments, p2 \in Parent2Alignments}

\* Direct calls of build_pileup for a variant C -> G, T: windows that match
\* the variant, differ at the anchor, or are too short.
BuildPileupCalls ==
  {[op |-> "build_pileup",
    dv_call |-> [variant |-> [reference_name |-> "chr1", start |-> 1, end |-> 2,
                              reference_bases |-> "C",
                              alternate_bases |-> <<"T", "G">>]],
    refbases |-> refbases, reads |-> reads, alt_alleles |-> alt_alleles,
    reads_parent1 |-> p1, reads_parent2 |-> p2, custom_ref |-> custom_ref] :
     refbases \in {<<"A", "C", "G">>, <<"A", "G", "G">>, <<"A", "G">>},
     reads \in {None, Some(ChildReads)},
     alt_alleles \in {<<>>, <<"G">>, <<"A">>},
     p1 \in {None, Some(Parent1Reads)}, p2 \in {None, Some(Parent2Reads)},
     custom_ref \in BOOLEAN}

Init ==
  /\ options \in CreatorOptions
  /\ readers \in ReaderSets
  /\ call \in CreateCalls \cup BuildPileupCalls
  /\ result = [kind |-> "none"]
  /\ np_random = 0

CallBuildPileup ==
  /\ call.op = "build_pileup"
  /\ result' = [kind |-> "image",
                built |-> build_pileup(options, call.dv_call, call.refbases, call.reads,
                                       call.alt_alleles, call.reads_parent1,
                                       call.reads_parent2, call.custom_ref)]
  /\ UNCHANGED <<options, readers, call, np_random>>

CallCreatePileupImages ==
  /\ call.op = "create_pileup_images"
  /\ result' = [kind |-> "images",
                created |-> create_pileup_images(options, readers, call.dv_call, call.hap)]
  /\ UNCHANGED <<options, readers, call, np_random>>

Next == CallBuildPileup \/ CallCreatePileupImages

Spec == Init /\ [][Next]_vars

\* ------------------------------------------------ claims on build_pileup

\* build_pileup returned an image.
Built ==
  call.op = "build_pileup" /\ result.kind = "image" /\ result.built.outcome.ok

BuiltImage == result.built.outcome.value

\* The encoded row at row i of the built image.
BuiltRow(i) == BuiltImage.data[i][1][1]

\* The names of the reads of an optional stream.
NamesOf(reads) == IF IsNone(reads) THEN {} ELSE {Get(reads)[i].name : i \in 1..Len(Get(reads))}

\* The rows of the image that hold a read of the given stream.
RowsOf(reads) ==
  {i \in 1..BuiltImage.shape[1] : BuiltRow(i)[1] = "read" /\ BuiltRow(i)[2] \in NamesOf(reads)}

\* The height a stream contributes in a given role: nothing when absent.
BlockHeight(reads, height) == IF IsNone(reads) THEN 0 ELSE height

\* Parent 1's block ends at row Top, the child's at row Middle.
Top == BlockHeight(call.reads_parent1, options.height_parent)

Middle == Top + BlockHeight(call.reads, options.height_child)

\* The blocks lie in the order parent 1, child, parent 2, each in its own rows.
StackedInOrder ==
  /\ \A i \in RowsOf(call.reads_parent1) : i <= Top
  /\ \A i \in RowsOf(call.reads) : Top < i /\ i <= Middle
  /\ \A i \in RowsOf(call.reads_parent2) : Middle < i
  /\ \A i \in 1..BuiltImage.shape[1] :
       BuiltRow(i)[1] = "read" =>
         i \in RowsOf(call.reads_parent1) \cup RowsOf(call.reads) \cup RowsOf(call.reads_parent2)

\* In single-sample mode the image is the child's block alone.
SingleSampleImage ==
  /\ BuiltImage.shape[1] = options.height
  /\ \A i \in 1..BuiltImage.shape[1] :
       BuiltRow(i)[1] = "read" => i \in RowsOf(call.reads)

\* C2 as stated: a trio image is parent 1 above child above parent 2 and is
\* height_parent + height_child + height_parent rows high; a single-sample
\* image is the child block, of the single configured height.
C2_TrioHeightAlways ==
  Built =>
    IF options.sequencing_type = TRIO
    THEN /\ StackedInOrder
         /\ BuiltImage.shape[1] =
              options.height_parent + options.height_child + options.height_parent
    ELSE SingleSampleImage

\* C2 amended: a trio image stacks the blocks of the supplied read streams in
\* the order parent 1, child, parent 2; an absent stream contributes no rows,
\* so the height is the sum of the configured heights of the supplied roles,
\* height_parent + height_child + height_parent when all three are supplied.
C2_StackOfSuppliedStreams ==
  Built =>
    IF options.sequencing_type = TRIO
    THEN /\ StackedInOrder
         /\ BuiltImage.shape[1] =
              Middle + BlockHeight(call.reads_parent2, options.height_parent)
         /\ (~IsNone(call.reads_parent1) /\ ~IsNone(call.reads) /\ ~IsNone(call.reads_parent2))
              => BuiltImage.shape[1] =
                   options.height_parent + options.height_child + options.height_parent
    ELSE SingleSampleImage

\* C2 witness: a trio image of all three streams, holding a read of each.
C2_Witness ==
  /\ Built
  /\ options.sequencing_type = TRIO
  /\ RowsOf(call.reads_parent1) # {}
  /\ RowsOf(call.reads) # {}
  /\ RowsOf(call.reads_parent2) # {}
  /\ BuiltImage.shape[1] = 2 * options.height_parent + options.height_child

\* build_pileup ran, checking the window against the variant, on a window
\* whose base at half_width is not the variant's first reference base.
AnchorDiffers ==
  /\ call.op = "build_pileup"
  /\ result.kind = "image"
  /\ Len(call.refbases) > (options.width - 1) \div 2
  /\ call.refbases[(options.width - 1) \div 2 + 1]
       # FirstChar(call.dv_call.variant.reference_bases)

\* create_pileup_images ran.
CreateDone == call.op = "create_pileup_images" /\ result.kind = "images"

CallVariant == call.dv_call.variant

\* The reference window of the call's variant lies inside the contig.
WindowValid ==
  LET start == CallVariant.start - (options.width - 1) \div 2
  IN 0 <= start /\ start + options.width <= Len(readers.ref_reader)

\* The contig's base at the variant's start is the variant's first reference base.
WindowMatchesVariant ==
  WindowValid /\ readers.ref_reader[CallVariant.start + 1] = FirstChar(CallVariant.reference_bases)

\* C10: without custom_ref a window whose anchor base differs makes
\* build_pileup raise a ValueError (the middle-base one when the other
\* arguments are valid) before the encoder is called; with custom_ref the
\* middle-base error is never raised, so create_pileup_images raises it only
\* for the reference window, never for a haplotype window.
C10_AnchorCheck ==
  /\ (AnchorDiffers /\ ~call.custom_ref) =>
       /\ ~result.built.outcome.ok
       /\ result.built.outcome.error \in
            {RefbasesLengthError, EmptyAltAllelesError, NotAlternateError, MiddleBaseError}
       /\ result.built.encoder_calls = 0
       /\ (/\ Len(call.refbases) = options.width
           /\ Len(call.alt_alleles) > 0
           /\ Elements(call.alt_alleles) \subseteq Elements(call.dv_call.variant.alternate_bases))
            => result.built.outcome = Raise(MiddleBaseError)
  /\ (call.op = "build_pileup" /\ result.kind = "image" /\ call.custom_ref) =>
       result.built.outcome # Raise(MiddleBaseError)
  /\ (CreateDone /\ WindowMatchesVariant) =>
       result.created.outcome # Raise(MiddleBaseError)

\* C10, the haplotype case reached: images returned for haplotype windows whose
\* anchor base is the alternate allele, not the variant's reference base.
C10_HaplotypeWindowsAccepted ==
  /\ CreateDone
  /\ WindowMatchesVariant
  /\ options.alt_aligned_pileup = "rows"
  /\ Len(CallVariant.alternate_bases) = 2
  /\ result.created.outcome.ok
  /\ Len(Get(result.created.outcome.value)) >= 1

\* C10 witness: the middle-base error raised with no encoder call.
C10_Witness ==
  /\ AnchorDiffers
  /\ ~call.custom_ref
  /\ result.built = Outcome(Raise(MiddleBaseError), 0)

\* --------------------------------------- claims on create_pileup_images

Created_ == result.created.outcome

NumAlternates == Len(CallVariant.alternate_bases)

\* How many allele subsets the configured mode enumerates.
NumCombinations ==
  IF options.multi_allelic_mode = "NO_HET_ALT_IMAGES" THEN NumAlternates
  ELSE (NumAlternates * (NumAlternates + 1)) \div 2

\* The returned list pairs each enumerated subset, in order, with an image.
OnePairPerCombination ==
  /\ ~IsNone(Created_.value)
  /\ Len(Get(Created_.value)) = NumCombinations
  /\ \A i \in 1..NumCombinations :
       /\ Get(Created_.value)[i][1] = alt_allele_combinations(options, CallVariant).value[i]
       /\ Get(Created_.value)[i][2].shape[1] >= 1

\* C8 as stated: an invalid window gives None, without an exception, and
\* every call on a valid window that completes returns a non-empty list with
\* one pair per enumerated combination.
C8_EmptyOnlyByEarlyExit ==
  CreateDone =>
    /\ ~WindowValid => Created_ = Return(None)
    /\ (WindowValid /\ Created_.ok) =>
         (OnePairPerCombination /\ Len(Get(Created_.value)) >= 1)

\* C8 amended: an invalid window gives None, without an exception; a call on
\* a valid window that completes returns a list with one pair per enumerated
\* combination, which is non-empty exactly when the variant has an alternate
\* allele (a variant without alternates gives the empty list).
C8_OnePairPerCombination ==
  CreateDone =>
    /\ ~WindowValid => Created_ = Return(None)
    /\ (WindowValid /\ Created_.ok) =>
         /\ OnePairPerCombination
         /\ Len(Get(Created_.value)) >= 1 <=> NumAlternates >= 1

\* C8 witness: three images returned for a variant with two alternates.
C8_Witness ==
  /\ CreateDone
  /\ WindowValid
  /\ Created_.ok
  /\ NumAlternates = 2
  /\ Len(Get(Created_.value)) = 3

\* C8, the early exit reached: None returned for a window off the contig.
C8_EarlyExitTaken == CreateDone /\ ~WindowValid /\ Created_ = Return(None)

\* An alt-aligned representation is configured.
AltAligned == options.alt_aligned_pileup # ""

HaplotypeDicts ==
  <<call.hap.haplotype_alignments, call.hap.haplotype_sequences,
    call.hap.parent1_hap_alns, call.hap.parent2_hap_alns>>

\* One of the four haplotype dicts is None or empty.
DictMissing ==
  \E k \in 1..4 : IsNone(HaplotypeDicts[k]) \/ DOMAIN Get(HaplotypeDicts[k]) = {}

\* One of the four haplotype dicts has no entry for an alternate of the variant.
AlleleMissing ==
  \E k \in 1..4, a \in Elements(CallVariant.alternate_bases) :
    IsNone(HaplotypeDicts[k]) \/ a \notin DOMAIN Get(HaplotypeDicts[k])

\* The call gets as far as the haplotype data: valid window matching the
\* variant, read sources for both parents, a mode that enumerates, and an
\* alternate allele.
ReachesHaplotypeData ==
  /\ WindowMatchesVariant
  /\ ~IsNone(readers.sam_reader_parent1)
  /\ ~IsNone(readers.sam_reader_parent2)
  /\ options.multi_allelic_mode # "UNSPECIFIED"
  /\ NumAlternates >= 1

\* C9 as stated: with an alt-aligned representation configured, a call that
\* gets as far as the haplotype data and finds any of it missing (a dict, or
\* an allele's entry in one) fails with the ValueError about haplotype data.
C9_MissingDataIsValueError ==
  (CreateDone /\ AltAligned /\ ReachesHaplotypeData
     /\ (DictMissing \/ AlleleMissing)) =>
    Created_ = Raise(HaplotypeDataError)

\* C9, what the code does: a haplotype dict that is None or empty makes the
\* call fail with the ValueError about haplotype data; dicts that are all
\* non-empty but lack an allele's entry make it fail with another error (the
\* lookup's KeyError).
C9_MissingDictIsValueError ==
  (CreateDone /\ AltAligned /\ ReachesHaplotypeData) =>
    /\ DictMissing => Created_ = Raise(HaplotypeDataError)
    /\ (~DictMissing /\ AlleleMissing) =>
         /\ ~Created_.ok
         /\ Created_.error # HaplotypeDataError

\* C9 witness: the ValueError raised for an empty dict while the other three
\* hold every allele.
C9_Witness ==
  /\ CreateDone
  /\ AltAligned
  /\ ReachesHaplotypeData
  /\ \A k \in 1..4 : ~IsNone(HaplotypeDicts[k])
  /\ \E k \in 1..4 : DOMAIN Get(HaplotypeDicts[k]) = {}
  /\ Created_ = Raise(HaplotypeDataError)

\* C9, the other case reached: KeyError raised for an allele without entry.
C9_LookupFails ==
  /\ CreateDone
  /\ AltAligned
  /\ ReachesHaplotypeData
  /\ ~DictMissing
  /\ Created_ = Raise("KeyError")

\* ------------------------------------ claim on the read-source queries

\* The read-source queries the call made, in order.
Queries == result.created.queries

\* The creator was constructed without read sources for the parents.
NoParentSources ==
  IsNone(readers.sam_reader_parent1) /\ IsNone(readers.sam_reader_parent2)

\* The query of one read source over
\* [variant.start - read_overlap_buffer_bp, variant.end + read_overlap_buffer_bp).
QueryOf(reader) ==
  [reader |-> reader,
   region |-> [reference_name |-> CallVariant.reference_name,
               start |-> CallVariant.start - options.read_overlap_buffer_bp,
               end |-> CallVariant.end + options.read_overlap_buffer_bp]]

\* What asking an absent parent source for reads raises.
ParentSourceError == "AttributeError: 'NoneType' object has no attribute 'query'"

\* C11 as stated: an invalid window queries no read source; in single-sample
\* mode without parent sources a call on a valid window queries the child's
\* source alone, over the buffered region, and does not fail for the want of
\* a parent source.
C11_ChildAloneCompletes ==
  CreateDone =>
    /\ ~WindowValid => Queries = <<>>
    /\ (WindowValid /\ NoParentSources /\ options.sequencing_type # TRIO) =>
         /\ Queries = <<QueryOf("sam_reader")>>
         /\ Created_ # Raise(ParentSourceError)

\* C11, what the code does: an invalid window queries no read source; on a
\* valid window the child's source is queried and then, whatever the
\* sequencing type, parent 1's and parent 2's: with parent sources all three
\* are queried over the buffered region, without them the call queries the
\* child's source and fails with the AttributeError.
C11_ParentsAlwaysAsked ==
  CreateDone =>
    /\ ~WindowValid => Queries = <<>>
    /\ (WindowValid /\ NoParentSources) =>
         /\ Queries = <<QueryOf("sam_reader")>>
         /\ Created_ = Raise(ParentSourceError)
    /\ (WindowValid /\ ~NoParentSources) =>
         Queries = <<QueryOf("sam_reader"), QueryOf("sam_reader_parent1"),
                     QueryOf("sam_reader_parent2")>>

\* C11 witness: a single-sample creator without parent sources, on a valid
\* window matching the variant, has queried the child's source alone.
C11_Witness ==
  /\ CreateDone
  /\ options.sequencing_type # TRIO
  /\ NoParentSources
  /\ WindowMatchesVariant
  /\ NumAlternates >= 1
  /\ Queries = <<QueryOf("sam_reader")>>

\* C11, the invalid window reached: no read source queried.
C11_NoWindowNoQuery == CreateDone /\ ~WindowValid /\ Queries = <<>>

\* C11, parents asked in single-sample mode: a creator with parent sources
\* queries all three whatever the sequencing type.
C11_ParentsAskedInSingleSample ==
  /\ CreateDone
  /\ options.sequencing_type # TRIO
  /\ ~NoParentSources
  /\ Len(Queries) = 3

\* ------------------------------- specification: the layout of a block

\* A single-sample configuration with a reference band of two rows and a
\* target height of five.
LayoutOptions ==
  {[BaseOptions EXCEPT !.sequencing_type = "UNSPECIFIED_SEQ_TYPE",
                       !.reference_band_height = 2, !.height = 5,
                       !.random_seed = r] : r \in Seeds}

\* Four representable reads.
LayoutReads ==
  [i \in 1..4 |-> [name |-> i, position |-> IF i \in {1, 3} THEN 2 ELSE 1,
                   HP |-> <<>>, representable |-> TRUE]]

LayoutCalls ==
  {[op |-> "build_pileup_for_one_sample", reads |-> Some(LayoutReads),
    sample_type |-> sample_type] : sample_type \in SampleType}

InitLayout ==
  /\ options \in SampleOptions \cup LayoutOptions
  /\ readers = DefaultReaders
  /\ call \in SampleCalls \cup LayoutCalls
  /\ result = [kind |-> "none"]
  /\ np_random = 0

NextLayout == CallBuildPileupForOneSample

SpecLayout == InitLayout /\ [][NextLayout]_vars

\* ------------------------------------------- claim on the block's layout

\* The rows of the block that are all-zero filler.
FillerRowsAt == {i \in 1..Len(result.rows) : result.rows[i] = <<"empty">>}

\* The last row of the reference band, and the last read row.
BandEnd == options.reference_band_height

ReadsEnd == BandEnd + Cardinality(ReadRowsAt)

\* The call of the example: band of two, height five, four representable reads.
LayoutExample ==
  /\ SampleAssembled
  /\ options \in LayoutOptions
  /\ call.reads = Some(LayoutReads)

\* C12: a block assembled from a supplied read stream is the reference band
\* (reference_band_height identical reference rows, whatever the reads), then
\* the retained read rows, then all-zero filler rows, which are present only
\* when the stream had fewer representable reads than capacity; in the
\* example the block is two reference rows and three read rows, no filler.
C12_BlockLayout ==
  SampleAssembled =>
    /\ Len(result.rows) >= BandEnd
    /\ \A i \in 1..Len(result.rows) :
         /\ i <= BandEnd => result.rows[i] = <<"ref", WindowACG>>
         /\ (BandEnd < i /\ i <= ReadsEnd) => i \in ReadRowsAt
         /\ ReadsEnd < i => i \in FillerRowsAt
    /\ FillerRowsAt # {} => Cardinality(Representable) < RoleCapacity
    /\ LayoutExample =>
         /\ Len(result.rows) = 5
         /\ ReadRowsAt = {3, 4, 5}
         /\ FillerRowsAt = {}

\* C12 witness: the example's block, five rows without filler.
C12_Witness ==
  /\ LayoutExample
  /\ Len(result.rows) = 5
  /\ Cardinality(ReadRowsAt) = 3
  /\ FillerRowsAt = {}

\* C12, filler reached: a block with read rows and filler below them.
C12_FillerAtBottom ==
  /\ SampleAssembled
  /\ ReadRowsAt # {}
  /\ FillerRowsAt # {}
  /\ \A i \in ReadRowsAt, j \in FillerRowsAt : i < j

====
